---- MODULE Spec2Model ----
(***************************************************************************)
(* State-machine model of rlassopy/models.py: the estimators Rlasso and    *)
(* SqrtRlasso (both RlassoBase), their fit / predict calls, and the        *)
(* iterative penalty-calibration loop of _rlasso_algorithm.                *)
(*                                                                         *)
(* Real numbers are sampled on small integer grids.  The quantities that   *)
(* the code derives from the data X, y (pilot OLS coefficients, sigma-hat  *)
(* and hence lambda, the loadings psi, the post-OLS coefficients) and the  *)
(* point the external convex solver returns are inputs of the model: each  *)
(* is drawn from its grid where the code computes it.  A residual          *)
(* y - X @ b is represented by the coefficient vector b it is the residual *)
(* of (X and y are fixed within one fit call).  Tolerances are in grid     *)
(* units: a coefficient of 1 is nonzero and below zero_tol, two values     *)
(* that differ by 1 are distinct and within convergence_tol.               *)
(***************************************************************************)
EXTENDS Integers, Sequences, FiniteSets, TLC

\* ---------------------------------------------------------------- bounds
MaxIterBound == 2      \* max_iter ranges over 0..MaxIterBound
MaxN == 3              \* n (rows of X) ranges over 2..MaxN
MaxP == 2              \* p (columns of X) ranges over 1..MaxP
NCorr == 1             \* n_corr, the number of pilot columns
Grid == 2              \* coefficients range over 0..Grid
MaxLam == 2            \* lambda ranges over 0..MaxLam
MaxPsi == 3            \* a loading ranges over 1..MaxPsi
MaxFits == 2           \* fit calls per estimator

\* ------------------------------------------------------ program constants
ZeroTol == 2           \* zero_tol, in grid units
ConvTol == 1           \* convergence_tol, in grid units
RTolDen == 100000      \* 1 / rtol of np.isclose and np.allclose (rtol = 1e-05)

Abs(x) == IF x < 0 THEN -x ELSE x
Min(a, b) == IF a < b THEN a ELSE b

\* ------------------------------------------------------------ value sets
CovTypes == {"nonrobust", "robust", "cluster"}
Variants == {"std", "sqrt"}
SolverStatuses == {"optimal", "infeasible", "unbounded", "solver_error"}

GammaNone == [kind |-> "None", n |-> 0]
GammaUser == [kind |-> "user", n |-> 0]
GammaLog(n) == [kind |-> "log", n |-> n]
GammaSqrt(n) == [kind |-> "sqrt", n |-> n]

BetaVals(len) == [1..len -> 0..Grid]
LamVals == 0..MaxLam
PsiVals(p) == {[j \in 1..p |-> v] : v \in 1..MaxPsi}
Identity(p) == [j \in 1..p |-> 1]

NoVec == <<>>
Unset == <<>>
Some(v) == <<v>>

NIterUnset == [state |-> "unset", val |-> 0]
NIterNone == [state |-> "None", val |-> 0]
NIterInt(v) == [state |-> "int", val |-> v]

\* The outcome of a call: the operation, how it ended ("ok" or the exception),
\* the solver status that ended it, the validity and column count of its X, and
\* what predict returned: X @ coef (+ icpt).
Call(op, result, status, valid, cols, pred) ==
    [op |-> op, result |-> result, status |-> status, valid |-> valid,
     cols |-> cols, pred |-> pred]
NoCall == Call("none", "none", "none", TRUE, 0, Unset)

VARIABLES
    cfg,         \* the constructor's options (RlassoBase.__init__)
    gamma,       \* self.gamma
    coef_,       \* self.coef_    (Unset until a fit stores it)
    lambd_,      \* self.lambd_
    psi_,        \* self.psi_
    n_iter_,     \* self.n_iter_  (SqrtRlasso only)
    intercept_,  \* self.intercept_
    pc,          \* position inside the running call, "idle" between calls
    shape,       \* [n, p] of the X of the running fit
    beta0, resid0, lambd, lambd0, psi, psi0, n_iter, k,   \* locals of _rlasso_algorithm
    lasso,       \* history: the thresholded solution of the last solve, before any refit
    solves,      \* history: convex solves of the running (or last) fit
    refits,      \* history: post-OLS refits of the running (or last) fit
    solveArgs,   \* history: the (lambd, psi) passed to the last solve and its beta
    gammaUsed,   \* history: the gammas read by the penalty-level computations of the fit
    everFitOK,   \* history: some fit call has returned
    fits,        \* fit calls so far
    lastCall     \* the outcome of the last call

estimator == <<cfg, gamma, coef_, lambd_, psi_, n_iter_, intercept_>>
locals == <<shape, beta0, resid0, lambd, lambd0, psi, psi0, n_iter, k>>
history == <<lasso, solves, refits, solveArgs, gammaUsed, everFitOK, fits, lastCall>>
vars == <<estimator, pc, locals, history>>

\* -------------------------------------------------------- pure functions

\* np.isclose(a, b, atol=convergence_tol): |a - b| <= atol + rtol * |b|
IsClose(a, b) == Abs(a - b) * RTolDen <= ConvTol * RTolDen + Abs(b)

\* np.allclose(a, b, atol=convergence_tol) on the diagonals (off-diagonals are 0)
AllClose(a, b) == \A j \in DOMAIN a : IsClose(a[j], b[j])

\* beta[np.where(np.abs(beta) < self.zero_tol)] = 0.0
HardThreshold(b) == [j \in DOMAIN b |-> IF Abs(b[j]) < ZeroTol THEN 0 ELSE b[j]]

\* nonzero_idx = np.where(beta != 0)[0]
Support(b) == {j \in DOMAIN b : b[j] # 0}

\* beta[nonzero_idx] = post_beta: the support takes the OLS coefficients, any
\* reals; the other entries stay 0
PostOLS(b) == {c \in BetaVals(Len(b)) : \A j \in DOMAIN b : j \notin Support(b) => c[j] = 0}

\* if self.gamma is None: self.gamma = 0.1 / np.log(n)
DefaultGamma(g, n) == IF g.kind = "None" THEN GammaLog(n) ELSE g

\* Rlasso._penalty_level: the exception it ends in, or "ok".  hasX: the caller
\* passed X and psi.
RlassoPenaltyLevel(c, hasX) ==
    IF c.x_dependent
    THEN IF ~hasX THEN "TypeError"                     \* Xpsi = X @ psi on None
         ELSE IF c.cov_type = "nonrobust" THEN "ok"
         ELSE "UnboundLocalError"                      \* print(lambd) before assignment
    ELSE "ok"

\* SqrtRlasso._penalty_level
SqrtPenaltyLevel(c) == IF c.x_dependent THEN "NotImplementedError" ELSE "ok"

\* Rlasso._penalty_loadings raises NotImplementedError
RlassoLoadingsRaise(c, hasResid) ==
    /\ ~(c.cov_type = "robust" /\ hasResid)
    /\ c.cov_type = "cluster"

\* SqrtRlasso._penalty_loadings raises NotImplementedError
SqrtLoadingsRaise(c, hasResid) ==
    /\ c.cov_type # "nonrobust"
    /\ ~(c.cov_type = "robust" /\ hasResid)

LoadingsRaise(c, hasResid) ==
    IF c.variant = "sqrt" THEN SqrtLoadingsRaise(c, hasResid)
    ELSE RlassoLoadingsRaise(c, hasResid)

PenaltyLevel(c, hasX) ==
    IF c.variant = "sqrt" THEN SqrtPenaltyLevel(c) ELSE RlassoPenaltyLevel(c, hasX)

\* faulty variant of LoopHasNext: range(self.max_iter + 1)
LoopHasNextOffByOne(i, c) == i <= c.max_iter

\* for _ in range(self.max_iter)
LoopHasNext(i, c) == i < c.max_iter

\* the single-solve path of SqrtRlasso._rlasso_algorithm
SinglePath(c) == c.variant = "sqrt" /\ c.cov_type = "nonrobust"

\* the lambda-convergence loop (self.cov_type == "nonrobust") of Rlasso
LambdaLoop(c) == c.variant = "std" /\ c.cov_type = "nonrobust"

\* faulty variant of ReturnLambd: the lambd recomputed for the convergence
\* check is returned (line 406 left out)
ReturnLambdRecomputed(c, l, l0) == l

\* lambd = lambd0 after the lambda loop; the up-front lambd otherwise
ReturnLambd(c, l, l0) == IF LambdaLoop(c) THEN l0 ELSE l

\* psi = psi0 after the loadings loop; the up-front psi otherwise
ReturnPsi(c, s, s0) == IF LambdaLoop(c) THEN s ELSE s0

\* faulty variant of IsFitted: check_is_fitted(self), which any attribute
\* ending in "_" satisfies
IsFittedAnyAttribute == coef_ # Unset \/ n_iter_.state # "unset"

\* check_is_fitted(self, "coef_")
IsFitted == coef_ # Unset

\* _cvxpy_solve(X, y, lambd, psi, n) on p columns: every way it can end.
\* prob.solve raises SolverError on a solver error and leaves beta.value None
\* on an infeasible or unbounded problem, where np.abs(None) is a TypeError;
\* otherwise the point is thresholded and, if self.post, refitted by OLS on
\* its support (np.linalg.inv fails on a singular cross-product).
\* lasso: the thresholded point, beta: what is returned, refit: refits done.
SolveEnd(err, status, t, b, r) ==
    [err |-> err, status |-> status, lasso |-> t, beta |-> b, refit |-> r]

\* faulty variant of CvxpySolve: self.post is ignored, the thresholded point
\* is returned as it is
CvxpySolveNoRefit(p, c) ==
    {SolveEnd("SolverError", "solver_error", NoVec, NoVec, 0)}
    \cup {SolveEnd("TypeError", st, NoVec, NoVec, 0) : st \in {"infeasible", "unbounded"}}
    \cup {SolveEnd("ok", "optimal", HardThreshold(raw), HardThreshold(raw), 0) :
             raw \in BetaVals(p)}

CvxpySolve(p, c) ==
    {SolveEnd("SolverError", "solver_error", NoVec, NoVec, 0)}
    \cup {SolveEnd("TypeError", st, NoVec, NoVec, 0) : st \in {"infeasible", "unbounded"}}
    \cup UNION {
           LET t == HardThreshold(raw) IN
           IF c.post
           THEN (IF Support(t) # {}
                 THEN {SolveEnd("LinAlgError", "optimal", t, NoVec, 0)} ELSE {})
                \cup {SolveEnd("ok", "optimal", t, b, 1) : b \in PostOLS(t)}
           ELSE {SolveEnd("ok", "optimal", t, t, 0)}
           : raw \in BetaVals(p)}

\* ------------------------------------------------------------------ Init

Configs ==
    [variant : Variants, cov_type : CovTypes, post : BOOLEAN,
     fit_intercept : BOOLEAN, x_dependent : BOOLEAN,
     max_iter : 0..MaxIterBound, n_corr : {NCorr}, gamma : {GammaNone, GammaUser}]

NoArgs == [lambd |-> 0, psi |-> NoVec, beta |-> NoVec]

Init ==
    /\ cfg \in Configs
    /\ gamma = cfg.gamma
    /\ coef_ = Unset /\ lambd_ = Unset /\ psi_ = Unset /\ intercept_ = Unset
    /\ n_iter_ = NIterUnset
    /\ pc = "idle"
    /\ shape = [n |-> 0, p |-> 0]
    /\ beta0 = NoVec /\ resid0 = NoVec
    /\ lambd = 0 /\ lambd0 = 0 /\ psi = NoVec /\ psi0 = NoVec
    /\ n_iter = 0 /\ k = 0
    /\ lasso = NoVec /\ solves = 0 /\ refits = 0
    /\ solveArgs = NoArgs
    /\ gammaUsed = {}
    /\ everFitOK = FALSE /\ fits = 0
    /\ lastCall = NoCall

\* --------------------------------------------------------------- helpers

\* the frame of _rlasso_algorithm is gone once fit has ended
LocalsReset ==
    /\ shape' = [n |-> 0, p |-> 0]
    /\ beta0' = NoVec /\ resid0' = NoVec
    /\ lambd' = 0 /\ lambd0' = 0 /\ psi' = NoVec /\ psi0' = NoVec
    /\ n_iter' = 0 /\ k' = 0
    /\ lasso' = NoVec

\* an exception leaves fit: nothing is stored on the estimator
Raise(kind, status) ==
    /\ pc' = "idle"
    /\ lastCall' = Call("fit", kind, status, TRUE, shape.p, Unset)
    /\ LocalsReset
    /\ UNCHANGED <<cfg, coef_, lambd_, psi_, intercept_, everFitOK, fits>>

\* self.gamma after, and the gammas read by, a penalty-level computation
ReadGamma ==
    /\ gamma' = DefaultGamma(gamma, shape.n)
    /\ gammaUsed' = gammaUsed \cup {DefaultGamma(gamma, shape.n)}

\* the solve has returned: the loop body's bookkeeping of it
Solved(e) ==
    /\ beta0' = e.beta
    /\ resid0' = e.beta
    /\ lasso' = e.lasso
    /\ refits' = refits + e.refit
    /\ n_iter' = IF cfg.variant = "std" THEN n_iter + 1 ELSE n_iter
    /\ n_iter_' = IF cfg.variant = "sqrt" THEN NIterInt(n_iter_.val + 1) ELSE n_iter_
    /\ k' = k + 1
    /\ pc' = "loop"

\* self.coef_, self.lambd_, self.psi_ = (beta, lambd, psi); return self
Store(b, l, s) ==
    /\ coef_' = Some(b)
    /\ lambd_' = Some(l)
    /\ psi_' = Some(s)
    /\ everFitOK' = TRUE
    /\ pc' = "idle"
    /\ lastCall' = Call("fit", "ok", "none", TRUE, shape.p, Unset)
    /\ LocalsReset
    /\ UNCHANGED <<cfg, intercept_, fits>>

\* ---------------------------------------------------------------- actions

\* RlassoBase.fit up to the call of _rlasso_algorithm: check_X_y and centering
CallFit(valid, n, p) ==
    /\ pc = "idle"
    /\ fits < MaxFits
    /\ fits' = fits + 1
    /\ IF ~valid
       THEN /\ lastCall' = Call("fit", "ValueError", "none", FALSE, p, Unset)
            /\ UNCHANGED <<estimator, pc, locals, lasso, solves, refits, solveArgs,
                           gammaUsed, everFitOK>>
       ELSE /\ pc' = "algo"
            /\ shape' = [n |-> n, p |-> p]
            /\ lastCall' = Call("fit", "running", "none", TRUE, p, Unset)
            /\ lasso' = NoVec /\ solves' = 0 /\ refits' = 0
            /\ solveArgs' = NoArgs
            /\ gammaUsed' = {}
            /\ UNCHANGED <<estimator, beta0, resid0, lambd, lambd0, psi, psi0,
                           n_iter, k, everFitOK>>

\* the pilot OLS on the n_corr most correlated columns; n_iter = 0
Pilot ==
    /\ pc = "algo"
    /\ ~SinglePath(cfg)
    /\ \/ /\ Raise("LinAlgError", "none")
          /\ UNCHANGED <<gamma, n_iter_, solves, refits, solveArgs, gammaUsed>>
       \/ /\ \E b \in BetaVals(Min(cfg.n_corr, shape.p)) :
                /\ beta0' = b
                /\ resid0' = b
          /\ n_iter' = 0
          /\ pc' = "init"
          /\ UNCHANGED <<estimator, shape, lambd, lambd0, psi, psi0, k, history>>

\* SqrtRlasso, nonrobust: n_iter_ = None, lambd and psi up front, one solve,
\* return beta, lambd, psi
SqrtSingle ==
    /\ pc = "algo"
    /\ SinglePath(cfg)
    /\ n_iter_' = NIterNone
    /\ ReadGamma
    /\ IF PenaltyLevel(cfg, FALSE) # "ok"
       THEN /\ Raise(PenaltyLevel(cfg, FALSE), "none")
            /\ UNCHANGED <<solves, refits, solveArgs>>
       ELSE \E l \in LamVals, s \in PsiVals(shape.p), e \in CvxpySolve(shape.p, cfg) :
              /\ solves' = solves + 1
              /\ IF e.err # "ok"
                 THEN /\ Raise(e.err, e.status)
                      /\ solveArgs' = NoArgs
                      /\ UNCHANGED refits
                 ELSE /\ Store(e.beta, l, s)
                      /\ solveArgs' = [lambd |-> l, psi |-> s, beta |-> e.beta]
                      /\ refits' = refits + e.refit

\* Rlasso, nonrobust: psi computed up front from X alone, lambd0 = 0.0
InitLambdaLoop ==
    /\ pc = "init"
    /\ LambdaLoop(cfg)
    /\ \E s \in PsiVals(shape.p) : psi' = s
    /\ lambd0' = 0
    /\ k' = 0
    /\ pc' = "loop"
    /\ UNCHANGED <<estimator, shape, beta0, resid0, lambd, psi0, n_iter, history>>

\* robust / cluster: (SqrtRlasso: n_iter_ = 0,) lambd computed up front,
\* psi0 = identity
InitLoadingsLoop ==
    /\ pc = "init"
    /\ ~LambdaLoop(cfg)
    /\ n_iter_' = IF cfg.variant = "sqrt" THEN NIterInt(0) ELSE n_iter_
    /\ ReadGamma
    /\ IF PenaltyLevel(cfg, FALSE) # "ok"
       THEN /\ Raise(PenaltyLevel(cfg, FALSE), "none")
            /\ UNCHANGED <<solves, refits, solveArgs>>
       ELSE /\ \E l \in LamVals : lambd' = l
            /\ psi0' = Identity(shape.p)
            /\ k' = 0
            /\ pc' = "loop"
            /\ UNCHANGED <<cfg, coef_, lambd_, psi_, intercept_, shape, beta0, resid0,
                           lambd0, psi, n_iter, lasso, solves, refits, solveArgs,
                           everFitOK, fits, lastCall>>

\* one pass of the lambda loop: sigmahat and lambd from resid0, the convergence
\* check against lambd0, the solve, resid0, lambd0 = lambd, n_iter += 1
LambdaLoopPass ==
    /\ pc = "loop"
    /\ LambdaLoop(cfg)
    /\ LoopHasNext(k, cfg)
    /\ ReadGamma
    /\ IF PenaltyLevel(cfg, cfg.x_dependent) # "ok"
       THEN /\ Raise(PenaltyLevel(cfg, cfg.x_dependent), "none")
            /\ UNCHANGED <<n_iter_, solves, refits, solveArgs>>
       ELSE \E l \in LamVals :
              /\ IF IsClose(l, lambd0)
                 THEN /\ pc' = "exit"
                      /\ lambd' = l
                      /\ UNCHANGED <<cfg, coef_, lambd_, psi_, n_iter_, intercept_,
                                     shape, beta0, resid0, lambd0, psi, psi0, n_iter, k,
                                     lasso, solves, refits, solveArgs, everFitOK, fits,
                                     lastCall>>
                 ELSE /\ solves' = solves + 1
                      /\ \E e \in CvxpySolve(shape.p, cfg) :
                           IF e.err # "ok"
                           THEN /\ Raise(e.err, e.status)
                                /\ solveArgs' = NoArgs
                                /\ UNCHANGED <<n_iter_, refits>>
                           ELSE /\ Solved(e)
                                /\ solveArgs' = [lambd |-> l, psi |-> psi, beta |-> e.beta]
                                /\ lambd' = l
                                /\ lambd0' = l
                                /\ UNCHANGED <<cfg, coef_, lambd_, psi_, intercept_,
                                               shape, psi, psi0, everFitOK, fits,
                                               lastCall>>

\* one pass of the loadings loop: psi from resid0, the convergence check
\* against psi0, the solve, resid0, psi0 = psi, n_iter += 1
LoadingsLoopPass ==
    /\ pc = "loop"
    /\ ~LambdaLoop(cfg)
    /\ LoopHasNext(k, cfg)
    /\ IF LoadingsRaise(cfg, resid0 # NoVec)
       THEN /\ Raise("NotImplementedError", "none")
            /\ UNCHANGED <<gamma, n_iter_, solves, refits, solveArgs, gammaUsed>>
       ELSE \E s \in PsiVals(shape.p) :
              /\ UNCHANGED <<gamma, gammaUsed>>
              /\ IF AllClose(s, psi0)
                 THEN /\ pc' = "exit"
                      /\ psi' = s
                      /\ UNCHANGED <<cfg, coef_, lambd_, psi_, n_iter_, intercept_,
                                     shape, beta0, resid0, lambd, lambd0, psi0, n_iter,
                                     k, lasso, solves, refits, solveArgs, everFitOK,
                                     fits, lastCall>>
                 ELSE /\ solves' = solves + 1
                      /\ \E e \in CvxpySolve(shape.p, cfg) :
                           IF e.err # "ok"
                           THEN /\ Raise(e.err, e.status)
                                /\ solveArgs' = NoArgs
                                /\ UNCHANGED <<n_iter_, refits>>
                           ELSE /\ Solved(e)
                                /\ solveArgs' = [lambd |-> lambd, psi |-> s, beta |-> e.beta]
                                /\ psi' = s
                                /\ psi0' = s
                                /\ UNCHANGED <<cfg, coef_, lambd_, psi_, intercept_,
                                               shape, lambd, lambd0, everFitOK, fits,
                                               lastCall>>

\* range(self.max_iter) is exhausted
LoopExhausted ==
    /\ pc = "loop"
    /\ ~LoopHasNext(k, cfg)
    /\ pc' = "exit"
    /\ UNCHANGED <<estimator, locals, history>>

\* after the loop: lambd = lambd0 / psi = psi0, beta = beta0; return
LoopReturn ==
    /\ pc = "exit"
    /\ Store(beta0, ReturnLambd(cfg, lambd, lambd0), ReturnPsi(cfg, psi, psi0))
    /\ UNCHANGED <<gamma, n_iter_, solves, refits, solveArgs, gammaUsed>>

\* RlassoBase.predict
PredictResult(valid, cols) ==
    IF ~IsFitted THEN "NotFittedError"
    ELSE IF ~valid THEN "ValueError"                    \* check_array
    ELSE IF cols # Len(coef_[1]) THEN "ValueError"      \* X @ self.coef_
    ELSE IF cfg.fit_intercept /\ intercept_ = Unset THEN "AttributeError"
    ELSE "ok"

Predict(valid, cols) ==
    /\ pc = "idle"
    /\ lastCall' =
         Call("predict", PredictResult(valid, cols), "none", valid, cols,
              IF PredictResult(valid, cols) = "ok"
              THEN Some([coef |-> coef_[1],
                         icpt |-> IF cfg.fit_intercept THEN intercept_ ELSE Unset])
              ELSE Unset)
    /\ UNCHANGED <<estimator, pc, locals, lasso, solves, refits, solveArgs, gammaUsed,
                   everFitOK, fits>>

Next ==
    \/ \E valid \in BOOLEAN, n \in 2..MaxN, p \in 1..MaxP : CallFit(valid, n, p)
    \/ Pilot
    \/ SqrtSingle
    \/ InitLambdaLoop
    \/ InitLoadingsLoop
    \/ LambdaLoopPass
    \/ LoadingsLoopPass
    \/ LoopExhausted
    \/ LoopReturn
    \/ \E valid \in BOOLEAN, cols \in 1..MaxP : Predict(valid, cols)

Spec == Init /\ [][Next]_vars

\* ----------------------------------------------------------------- claims

FitReturned == lastCall.op = "fit" /\ lastCall.result = "ok"

\* C1: the iteration count of a fit (the local n_iter of Rlasso, self.n_iter_
\* of SqrtRlasso) never exceeds max_iter, and neither does the number of convex
\* solves made inside the iteration loop, however the loop exits.
C1_IterationsBounded ==
    /\ n_iter <= cfg.max_iter
    /\ n_iter_.state = "int" => n_iter_.val <= cfg.max_iter
    /\ ~SinglePath(cfg) => solves <= cfg.max_iter

\* the loop has been exhausted after max_iter solves
C1_Witness ==
    /\ pc = "exit"
    /\ cfg.max_iter = MaxIterBound
    /\ k = cfg.max_iter
    /\ solves = cfg.max_iter

\* the mean of the uncentered y of the i-th fit call, as a symbol
YMean(i) == i

\* C2: after a fit with fit_intercept that returned, the estimator holds the
\* mean of the uncentered y as its intercept, and a predict on a valid X with
\* as many columns as there are coefficients returns X @ beta (+ intercept if
\* fit_intercept) rather than an error.
C2_InterceptStoredAndUsed ==
    /\ (FitReturned /\ cfg.fit_intercept) => intercept_ = Some(YMean(fits))
    /\ (lastCall.op = "predict" /\ IsFitted /\ lastCall.valid
            /\ lastCall.cols = Len(coef_[1]))
       => /\ lastCall.result = "ok"
          /\ lastCall.pred =
               Some([coef |-> coef_[1],
                     icpt |-> IF cfg.fit_intercept THEN intercept_ ELSE Unset])

\* C3 as stated: no refit happens while the loop has a pass to go, and the
\* residual the next pass reads is that of the thresholded lasso solution.
C3_RefitOnlyAfterLoop ==
    (pc = "loop" /\ solves >= 1 /\ LoopHasNext(k, cfg))
    => (refits = 0 /\ resid0 = lasso)

\* C3 amended: with post set the refit is part of every convex solve, so in the
\* loop and after it the refits are as many as the solves, the residual the
\* next pass reads is that of the refitted beta, which is zero wherever the
\* thresholded solution is, and nothing is refitted after the loop; without
\* post nothing is refitted and the residual is that of the lasso solution.
C3_RefitInsideEverySolve ==
    /\ (pc \in {"loop", "exit"} \/ FitReturned)
       => refits = (IF cfg.post THEN solves ELSE 0)
    /\ (pc \in {"loop", "exit"} /\ solves >= 1)
       => /\ resid0 = beta0
          /\ beta0 = solveArgs.beta
          /\ Support(beta0) \subseteq Support(lasso)
          /\ ~cfg.post => beta0 = lasso

\* a refit between two passes changed the vector the next pass reads
C3_Witness ==
    /\ pc = "loop"
    /\ cfg.post
    /\ LoopHasNext(k, cfg)
    /\ solves = 1 /\ refits = 1
    /\ resid0 # lasso

\* no entry b with 0 < |b| < zero_tol
NoSmallEntry(b) == \A j \in DOMAIN b : b[j] = 0 \/ Abs(b[j]) >= ZeroTol

\* C4: after each convex solve, before any refit, no entry of beta lies
\* strictly between 0 and zero_tol in absolute value, and neither does any
\* entry of the vector a fit with post = false returns.
C4_SparsityExact ==
    /\ NoSmallEntry(lasso)
    /\ (FitReturned /\ ~cfg.post) => NoSmallEntry(coef_[1])

\* C5: a fit configured with cov_type = "cluster" never returns and never
\* stores coefficients, lambda or loadings.
C5_ClusterNeverFits ==
    cfg.cov_type = "cluster"
    => (~FitReturned /\ coef_ = Unset /\ lambd_ = Unset /\ psi_ = Unset)

\* C6: a fit whose convex solve ended with a status other than optimal ends in
\* the solver-failure error, and stores nothing of that solve.
C6_SolverFailureDistinguishable ==
    (lastCall.op = "fit" /\ lastCall.status \in SolverStatuses \ {"optimal"})
    => lastCall.result = "SolverError"

\* the default gamma the claim gives for a fit on n samples
ClaimedGamma(c, n) == IF c.variant = "std" THEN GammaSqrt(n) ELSE GammaLog(n)

\* C7: in a fit of an estimator constructed without gamma, every penalty-level
\* computation reads 0.1/sqrt(n) (standard) or 0.1/log(n) (sqrt).
C7_DefaultGamma ==
    (cfg.gamma = GammaNone /\ pc # "idle")
    => gammaUsed \subseteq {ClaimedGamma(cfg, shape.n)}

\* C8: predict ends in NotFittedError, returning nothing, exactly when no fit
\* call of the estimator has returned.
C8_NotFittedIffNoFitReturned ==
    lastCall.op = "predict"
    => /\ lastCall.result = "NotFittedError" <=> ~everFitOK
       /\ ~everFitOK => lastCall.pred = Unset

\* predict after a fit that raised
C8_Witness ==
    /\ lastCall.op = "predict"
    /\ lastCall.result = "NotFittedError"
    /\ fits >= 1
    /\ n_iter_.state # "unset"

\* C9: a fit that returns stores a coefficient vector of length p that a convex
\* solve produced.
C9_ReturnsSolvedVector ==
    FitReturned => (Len(coef_[1]) = lastCall.cols /\ solves >= 1)

\* C10: when a fit returns after at least one convex solve, the stored lambda
\* and loadings are those passed to the last solve, whose beta is the stored
\* one.
C10_TripleConsistent ==
    (FitReturned /\ solves >= 1)
    => /\ lambd_ = Some(solveArgs.lambd)
       /\ psi_ = Some(solveArgs.psi)
       /\ coef_ = Some(solveArgs.beta)

\* a fit returned after its loop stopped at a convergence check that followed
\* a solve
C10_Witness ==
    /\ FitReturned
    /\ ~SinglePath(cfg)
    /\ solves = 1
    /\ cfg.max_iter > solves

\* the gamma a freshly constructed estimator with the same options reads in a
\* fit on n rows
FreshGamma(c, n) == DefaultGamma(c.gamma, n)

\* C11: a fit depends only on its own X, y and the constructor's options, not
\* on earlier fits of the estimator.  The one attribute a fit reads back is
\* self.gamma, and lambda is a function of it (and of n, p, c, sigma-hat), so
\* every penalty-level computation of a fit reads the gamma that a fresh
\* estimator with the same options would read on the same X.
C11_FitIndependentOfEarlierFits ==
    pc # "idle" => gammaUsed \subseteq {FreshGamma(cfg, shape.n)}

====
